---- MODULE Spec2Model ----
(***************************************************************************)
(* Model of src/lambda_function.py: the record validators, the three       *)
(* process_*_records classifiers, and lambda_handler with its object       *)
(* store, metrics and batch-job collaborators.                             *)
(*                                                                         *)
(* Text is a sequence of one-character strings.  A Python value is a       *)
(* record [t, s, n]: t is the type ("None", "str", "int"), s the text of   *)
(* a str, n the value of an int.                                           *)
(***************************************************************************)
EXTENDS Integers, Sequences, FiniteSets, TLC

VARIABLES
    s3,        \* the bucket: a function from the keys that exist to their content
    uploads,   \* number of objects put by other parties so far
    last,      \* what the latest invocation of lambda_handler did
    prev,      \* totals of the invocation before it, if storage was not touched since
    cFmt,      \* classification: the format applied
    cInput,    \* classification: the decoded record sequence
    cResult,   \* classification: what the process_*_records loop returned
    sCounts,   \* scoring: <<total_valid, total_invalid>>
    sScore     \* scoring: the value of dq_score

vars == <<s3, uploads, last, prev, cFmt, cInput, cResult, sCounts, sScore>>

-----------------------------------------------------------------------------
(* Bounds *)

MaxUploads == 1    \* objects put by other parties
MaxSeqLen == 2     \* records in a sequence handed to a classifier
MaxCount == 9      \* value of a cumulative counter handed to the scorer

-----------------------------------------------------------------------------
(* Python values and the built-ins the validators call *)

PyNone == [t |-> "None", s |-> <<>>, n |-> 0]
PyStr(chars) == [t |-> "str", s |-> chars, n |-> 0]
PyInt(i) == [t |-> "int", s |-> <<>>, n |-> i]

DigitChars == <<"0", "1", "2", "3", "4", "5", "6", "7", "8", "9">>
Digits == {DigitChars[i] : i \in 1..10}
DigitVal(c) == (CHOOSE i \in 1..10 : DigitChars[i] = c) - 1
Whitespace == {" "}

\* str.isdigit(): non-empty and every character a digit
isdigit(chars) == Len(chars) > 0 /\ \A i \in 1..Len(chars) : chars[i] \in Digits

RECURSIVE lstrip(_)
lstrip(chars) ==
    IF chars # <<>> /\ Head(chars) \in Whitespace THEN lstrip(Tail(chars)) ELSE chars

RECURSIVE rstrip(_)
rstrip(chars) ==
    IF chars # <<>> /\ chars[Len(chars)] \in Whitespace
    THEN rstrip(SubSeq(chars, 1, Len(chars) - 1))
    ELSE chars

\* str.strip()
strip(chars) == rstrip(lstrip(chars))

RECURSIVE NatOf(_)
\* the number a non-empty digit string denotes
NatOf(chars) ==
    IF chars = <<>> THEN 0
    ELSE 10 * NatOf(SubSeq(chars, 1, Len(chars) - 1)) + DigitVal(chars[Len(chars)])

RECURSIVE DigitsOf(_)
DigitsOf(i) == IF i < 10 THEN <<DigitChars[i + 1]>> ELSE DigitsOf(i \div 10) \o <<DigitChars[(i % 10) + 1]>>

\* str(x)
py_str(v) ==
    CASE v.t = "str" -> v.s
      [] v.t = "int" -> IF v.n < 0 THEN <<"-">> \o DigitsOf(0 - v.n) ELSE DigitsOf(v.n)
      [] OTHER -> <<"N", "o", "n", "e">>

Ok(i) == [exc |-> "", n |-> i]
Raise(e) == [exc |-> e, n |-> 0]

\* the number a signed decimal literal denotes, after surrounding whitespace is dropped
ParseNumber(chars) ==
    LET body == strip(chars)
        neg == body # <<>> /\ Head(body) = "-"
        pos == body # <<>> /\ Head(body) = "+"
        mag == IF neg \/ pos THEN Tail(body) ELSE body
    IN IF isdigit(mag) THEN Ok(IF neg THEN 0 - NatOf(mag) ELSE NatOf(mag))
       ELSE Raise("ValueError")

\* float(x), on whole-number literals
py_float(v) ==
    CASE v.t = "int" -> Ok(v.n)
      [] v.t = "str" -> ParseNumber(v.s)
      [] OTHER -> Raise("TypeError")

\* int(x)
py_int(v) ==
    CASE v.t = "int" -> Ok(v.n)
      [] v.t = "str" -> ParseNumber(v.s)
      [] OTHER -> Raise("TypeError")

RECURSIVE SplitOn(_, _)
\* str.split(sep) for a one-character separator
SplitOn(chars, sep) ==
    IF \A i \in 1..Len(chars) : chars[i] # sep THEN <<chars>>
    ELSE LET k == CHOOSE i \in 1..Len(chars) :
                     chars[i] = sep /\ \A j \in 1..(i - 1) : chars[j] # sep
         IN <<SubSeq(chars, 1, k - 1)>> \o SplitOn(SubSeq(chars, k + 1, Len(chars)), sep)

IsLeap(y) == y % 4 = 0 /\ (y % 100 # 0 \/ y % 400 = 0)
DaysInMonth(y, m) ==
    IF m = 2 THEN (IF IsLeap(y) THEN 29 ELSE 28)
    ELSE IF m \in {4, 6, 9, 11} THEN 30 ELSE 31

\* datetime.datetime.strptime(date_str, "%Y-%m-%d"): TRUE when it returns
strptime_ok(chars) ==
    LET parts == SplitOn(chars, "-")
    IN /\ Len(parts) = 3
       /\ Len(parts[1]) = 4 /\ isdigit(parts[1])
       /\ Len(parts[2]) \in 1..2 /\ isdigit(parts[2])
       /\ Len(parts[3]) \in 1..2 /\ isdigit(parts[3])
       /\ NatOf(parts[1]) >= 1
       /\ NatOf(parts[2]) \in 1..12
       /\ NatOf(parts[3]) \in 1..DaysInMonth(NatOf(parts[1]), NatOf(parts[2]))

\* is_valid_date: every exception of strptime is caught
is_valid_date(v) == IF v.t = "str" THEN strptime_ok(v.s) ELSE FALSE

\* x.strip() for a value that may not be a str
py_strip(v) == IF v.t = "str" THEN [exc |-> "", s |-> strip(v.s)]
               ELSE [exc |-> "AttributeError", s |-> <<>>]

-----------------------------------------------------------------------------
(* Records and the per-record rules.  A rule evaluates to "valid",         *)
(* "invalid" or the name of the exception it raises.                       *)

Chars_CustomerID == <<"C", "u", "s", "t", "o", "m", "e", "r", "I", "D">>

\* needle in hay, for two str
Contains(hay, needle) ==
    \E i \in 1..(Len(hay) - Len(needle) + 1) : SubSeq(hay, i, i + Len(needle) - 1) = needle

\* A decoded JSON item: an object (kind "dict", f its members), a string or a number.
JDict(members) == [kind |-> "dict", f |-> members, s |-> <<>>]
JStr(chars) == [kind |-> "str", f |-> <<>>, s |-> chars]
JNum == [kind |-> "int", f |-> <<>>, s |-> <<>>]

\* name not in rec  (line 235): "absent", "present", or the exception
json_lookup(rec, name, nameChars) ==
    CASE rec.kind = "dict" -> IF name \in DOMAIN rec.f THEN "present" ELSE "absent"
      [] rec.kind = "str" -> IF Contains(rec.s, nameChars) THEN "TypeError" ELSE "absent"
      [] OTHER -> "TypeError"

\* the condition of lines 235-238, evaluated left to right with short-circuit "or"
json_rule(rec) ==
    LET cid == json_lookup(rec, "CustomerID", Chars_CustomerID)
    IN IF cid # "present" THEN (IF cid = "absent" THEN "invalid" ELSE cid)
       ELSE IF ~isdigit(py_str(rec.f["CustomerID"])) THEN "invalid"
       ELSE IF "Amount" \notin DOMAIN rec.f THEN "invalid"
       ELSE LET amount == py_float(rec.f["Amount"])
            IN IF amount.exc # "" THEN amount.exc
               ELSE IF amount.n <= 0 THEN "invalid"
               ELSE IF "Product" \notin DOMAIN rec.f THEN "invalid"
               ELSE IF py_strip(rec.f["Product"]).exc # "" THEN py_strip(rec.f["Product"]).exc
               ELSE IF py_strip(rec.f["Product"]).s = <<>> THEN "invalid"
               ELSE IF "Date" \notin DOMAIN rec.f THEN "invalid"
               ELSE IF ~is_valid_date(rec.f["Date"]) THEN "invalid"
               ELSE "valid"

\* an "except (KeyError, ValueError):" in place of the bare "except:"
json_except_narrow(e) == e \in {"KeyError", "ValueError"}

\* the bare "except:" of line 242 catches every exception
json_except(e) == TRUE

\* A Customer element maps the tags of its children to their .text (PyNone for
\* an element without text).  "not x.text"
xml_falsy(text) == text.t = "None" \/ text.s = <<>>

\* lines 203-218
xml_rule(cust) ==
    IF ~({"CustomerID", "Name", "City"} \subseteq DOMAIN cust) THEN "invalid"
    ELSE LET cid == cust["CustomerID"]
             name == cust["Name"]
             city == cust["City"]
         IN IF xml_falsy(cid) THEN "invalid"
            ELSE IF py_strip(cid).exc # "" THEN py_strip(cid).exc
            ELSE IF ~isdigit(py_strip(cid).s) THEN "invalid"
            ELSE IF xml_falsy(name) THEN "invalid"
            ELSE IF py_strip(name).exc # "" THEN py_strip(name).exc
            ELSE IF py_strip(name).s = <<>> THEN "invalid"
            ELSE IF xml_falsy(city) THEN "invalid"
            ELSE IF py_strip(city).exc # "" THEN py_strip(city).exc
            ELSE IF py_strip(city).s = <<>> THEN "invalid"
            ELSE "valid"

\* a csv.DictReader row: maps column names to a str, or to None for a missing
\* trailing field.  Lines 254-256.
csv_rule(row) ==
    IF "CustomerID" \notin DOMAIN row THEN "KeyError"
    ELSE IF row["CustomerID"].t # "str" THEN "AttributeError"
    ELSE IF ~isdigit(row["CustomerID"].s) THEN "invalid"
    ELSE IF "Rating" \notin DOMAIN row THEN "KeyError"
    ELSE LET rating == py_int(row["Rating"])
         IN IF rating.exc # "" THEN rating.exc
            ELSE IF rating.n < 1 \/ rating.n > 5 THEN "invalid"
            ELSE IF "Feedback" \notin DOMAIN row THEN "KeyError"
            ELSE IF py_strip(row["Feedback"]).exc # "" THEN py_strip(row["Feedback"]).exc
            ELSE IF py_strip(row["Feedback"]).s = <<>> THEN "invalid"
            ELSE "valid"

\* the bare "except:" of line 260
csv_except(e) == TRUE

-----------------------------------------------------------------------------
(* The classification loops.  A result is [exc, valid, invalid]: exc is "" *)
(* when the function returns and the exception's name when it raises.      *)

Returned(v, i) == [exc |-> "", valid |-> v, invalid |-> i]
Raised(e) == [exc |-> e, valid |-> <<>>, invalid |-> <<>>]

RECURSIVE xml_loop(_, _, _)
\* lines 202-219
xml_loop(custs, valid, invalid) ==
    IF custs = <<>> THEN Returned(valid, invalid)
    ELSE LET r == xml_rule(Head(custs))
         IN CASE r = "valid" -> xml_loop(Tail(custs), Append(valid, Head(custs)), invalid)
              [] r = "invalid" -> xml_loop(Tail(custs), valid, Append(invalid, Head(custs)))
              [] OTHER -> Raised(r)

RECURSIVE json_loop(_, _, _)
\* lines 233-244
json_loop(records, valid, invalid) ==
    IF records = <<>> THEN Returned(valid, invalid)
    ELSE LET r == json_rule(Head(records))
         IN CASE r = "valid" -> json_loop(Tail(records), Append(valid, Head(records)), invalid)
              [] r = "invalid" -> json_loop(Tail(records), valid, Append(invalid, Head(records)))
              [] OTHER -> IF json_except(r)
                          THEN json_loop(Tail(records), valid, Append(invalid, Head(records)))
                          ELSE Raised(r)

RECURSIVE csv_loop(_, _, _)
\* lines 252-262
csv_loop(rows, valid, invalid) ==
    IF rows = <<>> THEN Returned(valid, invalid)
    ELSE LET r == csv_rule(Head(rows))
         IN CASE r = "valid" -> csv_loop(Tail(rows), Append(valid, Head(rows)), invalid)
              [] r = "invalid" -> csv_loop(Tail(rows), valid, Append(invalid, Head(rows)))
              [] OTHER -> IF csv_except(r)
                          THEN csv_loop(Tail(rows), valid, Append(invalid, Head(rows)))
                          ELSE Raised(r)

\* classification of an already decoded record sequence, by format
classify(fmt, records) ==
    CASE fmt = "xml" -> xml_loop(records, <<>>, <<>>)
      [] fmt = "json" -> json_loop(records, <<>>, <<>>)
      [] fmt = "csv" -> csv_loop(records, <<>>, <<>>)

-----------------------------------------------------------------------------
(* Data quality score, lines 409-413.  A score is the exact fraction       *)
(* [num, den] in lowest terms (the code computes the same quotient in      *)
(* binary floating point); exc names the exception when evaluation raises. *)

RECURSIVE GCD(_, _)
GCD(a, b) == IF b = 0 THEN a ELSE GCD(b, a % b)

Fraction(a, b) == LET g == GCD(a, b) IN [exc |-> "", num |-> a \div g, den |-> b \div g]

\* a / b
truediv(a, b) == IF b = 0 THEN [exc |-> "ZeroDivisionError", num |-> 0, den |-> 1]
                 ELSE Fraction(a, b)

\* x * 100
times100(x) == IF x.exc # "" THEN x ELSE Fraction(x.num * 100, x.den)

\* the quotient without the guard on the denominator
dq_score_unguarded(total_valid, total_invalid) ==
    times100(truediv(total_valid, total_valid + total_invalid))

dq_score(total_valid, total_invalid) ==
    IF (total_valid + total_invalid) > 0
    THEN times100(truediv(total_valid, total_valid + total_invalid))
    ELSE Fraction(0, 1)

-----------------------------------------------------------------------------
(* Sample values and records *)

S_00123 == <<"0", "0", "1", "2", "3">>
S_A123 == <<"A", "1", "2", "3">>
S_pad7 == <<" ", "7", " ">>
S_blank == <<" ">>
S_X == <<"X">>
S_abc == <<"a", "b", "c">>
S_date == <<"2", "0", "2", "4", "-", "0", "1", "-", "0", "1">>
S_feb30 == <<"2", "0", "2", "4", "-", "0", "2", "-", "3", "0">>
S_feb29 == <<"2", "0", "2", "4", "-", "2", "-", "2", "9">>

\* g without the member k
Without(g, k) == [x \in (DOMAIN g) \ {k} |-> g[x]]
\* g with member k set to v
With(g, k, v) == [x \in (DOMAIN g) \cup {k} |-> IF x = k THEN v ELSE g[x]]

\* every record that differs from good in at most one member (changed or missing)
OneOff(good, alt) ==
    {good} \cup {Without(good, k) : k \in DOMAIN good}
           \cup UNION {{With(good, k, v) : v \in alt[k]} : k \in DOMAIN good}

JsonGood == [CustomerID |-> PyStr(S_00123), Amount |-> PyInt(5),
             Product |-> PyStr(S_X), Date |-> PyStr(S_date)]
JsonAlt == [CustomerID |-> {PyStr(S_A123), PyStr(<<>>), PyInt(7), PyNone},
            Amount |-> {PyInt(0 - 5), PyInt(0), PyStr(<<"5">>), PyStr(S_abc), PyNone},
            Product |-> {PyStr(S_blank), PyNone, PyInt(3)},
            Date |-> {PyStr(S_feb30), PyStr(S_feb29), PyStr(S_abc), PyNone}]
JsonRecords == {JDict(m) : m \in OneOff(JsonGood, JsonAlt)}
                   \cup {JStr(<<"a">>), JStr(Chars_CustomerID), JNum}

XmlGood == [CustomerID |-> PyStr(S_00123), Name |-> PyStr(S_X), City |-> PyStr(S_abc)]
XmlAlt == [CustomerID |-> {PyStr(S_A123), PyStr(S_pad7), PyStr(S_blank), PyNone},
           Name |-> {PyStr(S_blank), PyNone},
           City |-> {PyStr(S_blank), PyNone}]
XmlRecords == OneOff(XmlGood, XmlAlt)

CsvGood == [CustomerID |-> PyStr(S_00123), Rating |-> PyStr(<<"5">>), Feedback |-> PyStr(S_abc)]
CsvAlt == [CustomerID |-> {PyStr(S_A123), PyStr(<<>>), PyStr(S_pad7), PyNone},
           Rating |-> {PyStr(<<"6">>), PyStr(<<"0">>), PyStr(S_abc), PyStr(<<>>),
                       PyStr(S_pad7), PyNone},
           Feedback |-> {PyStr(S_blank), PyNone}]
CsvRecords == OneOff(CsvGood, CsvAlt)

RecordsOf(fmt) ==
    CASE fmt = "xml" -> XmlRecords
      [] fmt = "json" -> JsonRecords
      [] fmt = "csv" -> CsvRecords

Formats == {"xml", "json", "csv"}

\* the sequences over S of length at most n
SeqsUpTo(S, n) == UNION {[1..k -> S] : k \in 0..n}

-----------------------------------------------------------------------------
(* Object keys and file contents.  A key is a sequence of path tokens: a   *)
(* namespace ("raw/", "validated/", "error/"), a name, an extension.  No   *)
(* token other than "raw/" contains "raw/", so str.replace acts per token. *)

endswith(key, ext) == key # <<>> /\ key[Len(key)] = ext
startswith(key, prefix) == key # <<>> /\ key[1] = prefix
\* str.replace(old, new): every occurrence
replace(key, old, new) == [i \in 1..Len(key) |-> IF key[i] = old THEN new ELSE key[i]]

\* Text of a file, by what it holds: an XML document with its Customer elements,
\* a JSON value (array with its items, object with its keys, number), CSV text
\* with its rows, or one line of other text.
XmlDoc(custs) == [fmt |-> "xml", top |-> "", recs |-> custs]
JsonArray(items) == [fmt |-> "json", top |-> "array", recs |-> items]
JsonObject(keys) == [fmt |-> "json", top |-> "object", recs |-> keys]
JsonNumber == [fmt |-> "json", top |-> "number", recs |-> <<>>]
CsvText(rows) == [fmt |-> "csv", top |-> "", recs |-> rows]
PlainText == [fmt |-> "text", top |-> "", recs |-> <<>>]

\* ET.fromstring + root.findall(".//Customer")
ET_fromstring(content) ==
    IF content.fmt = "xml" THEN [exc |-> "", recs |-> content.recs]
    ELSE [exc |-> "ParseError", recs |-> <<>>]

\* json.loads followed by iteration of the value (lines 230, 233): an array yields
\* its items, an object its keys, a number is not iterable
json_loads(content) ==
    IF content.fmt # "json" THEN [exc |-> "JSONDecodeError", recs |-> <<>>]
    ELSE IF content.top = "number" THEN [exc |-> "TypeError", recs |-> <<>>]
    ELSE [exc |-> "", recs |-> content.recs]

\* csv.DictReader over the text: its rows; a single line of text is a header
\* without rows
csv_DictReader(content) ==
    CASE content.fmt = "csv" -> content.recs
      [] content.fmt = "text" -> <<>>

process_xml_records(content) ==
    LET root == ET_fromstring(content)
    IN IF root.exc # "" THEN Raised(root.exc) ELSE xml_loop(root.recs, <<>>, <<>>)

process_json_records(content) ==
    LET records == json_loads(content)
    IN IF records.exc # "" THEN Raised(records.exc) ELSE json_loop(records.recs, <<>>, <<>>)

process_csv_records(content) == csv_loop(csv_DictReader(content), <<>>, <<>>)

\* ET.tostring writes an element whose text is "" as an empty element, read back as None
xml_text(v) == IF v.t = "str" /\ v.s = <<>> THEN PyNone ELSE v
build_xml(customers) ==
    XmlDoc([i \in 1..Len(customers) |->
               [k \in DOMAIN customers[i] |-> xml_text(customers[i][k])]])

\* json.dumps(records, indent=2): str, int and None members are written losslessly
json_dumps(records) == JsonArray(records)

\* csv.DictWriter(fieldnames = first row's keys): a row with another key raises
\* ValueError, a missing member or None is written as the empty string
csv_write(rows) ==
    LET fieldnames == DOMAIN rows[1]
    IN IF \E i \in 1..Len(rows) : ~(DOMAIN rows[i] \subseteq fieldnames)
       THEN [exc |-> "ValueError", body |-> PlainText]
       ELSE [exc |-> "",
             body |-> CsvText([i \in 1..Len(rows) |->
                         [k \in fieldnames |->
                             IF k \in DOMAIN rows[i] /\ rows[i][k].t = "str"
                             THEN rows[i][k] ELSE PyStr(<<>>)]])]

-----------------------------------------------------------------------------
(* The collaborators *)

NoKey == <<>>
EmptyStore == [k \in {} |-> PlainText]

\* s3.put_object
put_object(store, key, body) ==
    [k \in (DOMAIN store) \cup {key} |-> IF k = key THEN body ELSE store[k]]

\* s3.get_object + Body.read: fails for a key that does not exist or that the
\* store cannot serve in this invocation
get_object(store, key, env) ==
    IF key \notin DOMAIN store THEN [exc |-> "NoSuchKey", content |-> PlainText]
    ELSE IF key = env.unreadable THEN [exc |-> "ClientError", content |-> PlainText]
    ELSE [exc |-> "", content |-> store[key]]

TokenOrder == <<".csv", ".json", ".txt", ".xml", "a", "b", "error/", "raw/", "validated/">>
TokenRank(tok) == CHOOSE i \in 1..Len(TokenOrder) : TokenOrder[i] = tok

RECURSIVE KeyLess(_, _)
\* the order in which the store lists keys
KeyLess(a, b) ==
    IF a = <<>> THEN b # <<>>
    ELSE IF b = <<>> THEN FALSE
    ELSE IF Head(a) # Head(b) THEN TokenRank(Head(a)) < TokenRank(Head(b))
    ELSE KeyLess(Tail(a), Tail(b))

RECURSIVE Sorted(_)
Sorted(S) ==
    IF S = {} THEN <<>>
    ELSE LET m == CHOOSE x \in S : \A y \in S \ {x} : KeyLess(x, y)
         IN <<m>> \o Sorted(S \ {m})

\* s3.list_objects_v2(Prefix=prefix)["Contents"]
list_objects_v2(store, prefix) == Sorted({k \in DOMAIN store : startswith(k, prefix)})

\* put_metric_data called outside the try
put_cw_metric_uncaught(cwFail) == IF cwFail THEN "ClientError" ELSE ""

\* put_cw_metric: a failure of the metrics service is caught and printed
put_cw_metric(cwFail) == ""

\* report_validation_failure
report_validation_failure(cwFail) == put_cw_metric(cwFail)

\* glue.start_job_run
start_job_run(glueFail) == IF glueFail THEN "ClientError" ELSE ""

\* Enrichment is off, the default of line 16: the block of lines 420-441 does nothing.

-----------------------------------------------------------------------------
(* lambda_handler *)

\* what an invocation did; store is the bucket it leaves
Outcome(ev) ==
    [ran |-> TRUE, event |-> ev, status |-> "", exc |-> "", readFailed |-> FALSE,
     scored |-> FALSE,
     tv |-> 0, ti |-> 0, dq |-> Fraction(0, 1), puts |-> <<>>, lists |-> 0,
     metrics |-> 0, scoringMetric |-> FALSE, cwDown |-> FALSE, jobs |-> 0]

\* lines 298-363: the current file, as [exc, store, puts, tv, ti]

\* the two conditional writes of one branch, given the two serialised cohorts
write_cohorts(store, key, res, validBody, invalidBody) ==
    LET vkey == replace(key, "raw/", "validated/")
        ekey == replace(key, "raw/", "error/")
        s1 == IF res.valid # <<>> THEN put_object(store, vkey, validBody) ELSE store
        p1 == IF res.valid # <<>> THEN <<vkey>> ELSE <<>>
    IN [exc |-> "",
        store |-> IF res.invalid # <<>> THEN put_object(s1, ekey, invalidBody) ELSE s1,
        puts |-> IF res.invalid # <<>> THEN Append(p1, ekey) ELSE p1,
        tv |-> Len(res.valid), ti |-> Len(res.invalid)]

NothingWritten(store, e) == [exc |-> e, store |-> store, puts |-> <<>>, tv |-> 0, ti |-> 0]
NoBody == [exc |-> "", body |-> PlainText]

\* lines 299-307
xml_branch(store, key, res) ==
    IF res.exc # "" THEN NothingWritten(store, res.exc)
    ELSE write_cohorts(store, key, res, build_xml(res.valid), build_xml(res.invalid))

\* lines 326-332
json_branch(store, key, res) ==
    IF res.exc # "" THEN NothingWritten(store, res.exc)
    ELSE write_cohorts(store, key, res, json_dumps(res.valid), json_dumps(res.invalid))

\* lines 350-363, given what the two writers produce
csv_writes(store, key, res, vw, iw) ==
    IF vw.exc # "" THEN NothingWritten(store, vw.exc)
    ELSE IF iw.exc # "" THEN
        \* the valid cohort is already written when the second writer raises
        [write_cohorts(store, key, [res EXCEPT !.invalid = <<>>], vw.body, iw.body)
            EXCEPT !.exc = iw.exc]
    ELSE write_cohorts(store, key, res, vw.body, iw.body)

\* lines 349-363
csv_branch(store, key, res) ==
    IF res.exc # "" THEN NothingWritten(store, res.exc)
    ELSE csv_writes(store, key, res,
                    IF res.valid # <<>> THEN csv_write(res.valid) ELSE NoBody,
                    IF res.invalid # <<>> THEN csv_write(res.invalid) ELSE NoBody)

process_current_file(store, key, content) ==
    IF endswith(key, ".xml") THEN xml_branch(store, key, process_xml_records(content))
    ELSE IF endswith(key, ".json") THEN json_branch(store, key, process_json_records(content))
    ELSE IF endswith(key, ".csv") THEN csv_branch(store, key, process_csv_records(content))
    ELSE NothingWritten(store, "")

process_by_extension(file_key, content) ==
    IF endswith(file_key, ".xml") THEN process_xml_records(content)
    ELSE IF endswith(file_key, ".json") THEN process_json_records(content)
    ELSE IF endswith(file_key, ".csv") THEN process_csv_records(content)
    ELSE Returned(<<>>, <<>>)

\* one file of a rescan loop, given what reading and classifying it gives:
\* the exception that leaves the loop and the count the file adds
rescan_file(obj2, res, cohort) ==
    IF obj2.exc # "" THEN [exc |-> obj2.exc, n |-> 0]
    ELSE IF res.exc # "" THEN [exc |-> res.exc, n |-> 0]
    ELSE [exc |-> "", n |-> Len(IF cohort = "valid" THEN res.valid ELSE res.invalid)]

scan_one(store, file_key, cohort, env) ==
    rescan_file(get_object(store, file_key, env),
                process_by_extension(file_key, get_object(store, file_key, env).content),
                cohort)

RECURSIVE rescan(_, _, _, _, _)
\* lines 375-389 (cohort "valid") and 392-406 (cohort "invalid"): the loop over
\* the listed keys, as [exc, total]
rescan(store, keys, cohort, env, total) ==
    IF keys = <<>> THEN [exc |-> "", total |-> total]
    ELSE IF scan_one(store, Head(keys), cohort, env).exc # ""
         THEN [exc |-> scan_one(store, Head(keys), cohort, env).exc, total |-> total]
    ELSE rescan(store, Tail(keys), cohort, env,
                total + scan_one(store, Head(keys), cohort, env).n)

\* "if total_valid >= 0" in place of "> 0"
should_trigger_nonneg(total_valid) == total_valid >= 0

\* line 445
should_trigger(total_valid) == total_valid > 0

\* line 415
should_report(total_invalid) == total_invalid > 0

\* lines 445-462, given what start_job_run does
trigger_and_return(out, g) ==
    IF ~should_trigger(out.tv) THEN [out EXCEPT !.status = "Record-level processing complete"]
    ELSE IF g # "" THEN [out EXCEPT !.jobs = @ + 1, !.exc = g]
    ELSE [out EXCEPT !.jobs = @ + 1, !.status = "Record-level processing complete"]

\* lines 415-416, given what report_validation_failure does
report_then_trigger(out, m, env) ==
    IF ~should_report(out.ti) THEN trigger_and_return(out, start_job_run(env.glueFail))
    ELSE IF m # ""
         THEN [out EXCEPT !.metrics = @ + 1, !.scoringMetric = TRUE,
                          !.cwDown = env.cwFail, !.exc = m]
    ELSE trigger_and_return([out EXCEPT !.metrics = @ + 1, !.scoringMetric = TRUE,
                                        !.cwDown = env.cwFail],
                            start_job_run(env.glueFail))

\* lines 409-462: score, metric, job trigger, return
score_and_trigger(out, total_valid, total_invalid, dq, env) ==
    IF dq.exc # ""
    THEN [out EXCEPT !.scored = TRUE, !.tv = total_valid, !.ti = total_invalid,
                     !.dq = dq, !.exc = dq.exc]
    ELSE report_then_trigger([out EXCEPT !.scored = TRUE, !.tv = total_valid,
                                         !.ti = total_invalid, !.dq = dq],
                             report_validation_failure(env.cwFail), env)

Done(out, store) == [out |-> out, store |-> store]

\* lines 391-462, given the result of the rescan of error/
after_error_rescan(out, store, env, total_valid, e) ==
    IF e.exc # "" THEN Done([out EXCEPT !.lists = 2, !.exc = e.exc], store)
    ELSE Done(score_and_trigger([out EXCEPT !.lists = 2], total_valid, e.total,
                                dq_score(total_valid, e.total), env), store)

\* lines 374-462, given the result of the rescan of validated/
after_validated_rescan(out, cur, env, v) ==
    IF v.exc # "" THEN Done([out EXCEPT !.lists = 1, !.exc = v.exc], cur.store)
    ELSE after_error_rescan(out, cur.store, env, v.total,
                            rescan(cur.store, list_objects_v2(cur.store, "error/"),
                                   "invalid", env, cur.ti))

\* lines 298-462, given what processing the current file did
after_current_file(out, cur, env) ==
    IF cur.exc # "" THEN Done([out EXCEPT !.puts = cur.puts, !.exc = cur.exc], cur.store)
    ELSE after_validated_rescan([out EXCEPT !.puts = cur.puts], cur, env,
                                rescan(cur.store, list_objects_v2(cur.store, "validated/"),
                                       "valid", env, cur.tv))

\* lines 274-275 and 286-287: the metric, then the failure status
fail_early(out, store, m, status, cwFail) ==
    Done([out EXCEPT !.metrics = 1, !.cwDown = cwFail,
                     !.status = IF m = "" THEN status ELSE "", !.exc = m], store)

\* lines 281-462, given the result of get_object
after_read(out, store, key, obj, env) ==
    IF obj.exc # ""
    THEN fail_early([out EXCEPT !.readFailed = TRUE], store,
                    report_validation_failure(env.cwFail), "Failed to read file", env.cwFail)
    ELSE after_current_file(out, process_current_file(store, key, obj.content), env)

\* lines 268-462, as [out, store]
handler(store, ev, env) ==
    IF ~ev.hasRecords \/ ev.Records = <<>>
    THEN \* lines 270-275
         fail_early(Outcome(ev), store, report_validation_failure(env.cwFail),
                    "No Records", env.cwFail)
    ELSE IF ~ev.Records[1].hasBucketName \/ ~ev.Records[1].hasKey
    THEN \* lines 277-278, outside any try
         Done([Outcome(ev) EXCEPT !.exc = "KeyError"], store)
    ELSE after_read(Outcome(ev), store, ev.Records[1].key,
                    get_object(store, ev.Records[1].key, env), env)

-----------------------------------------------------------------------------
(* The handler's state, idle *)

NoRun == [ran |-> FALSE, scored |-> FALSE]
NoPrev == [ran |-> FALSE]
Pending == [exc |-> "pending"]

HandlerIdle == s3 = EmptyStore /\ uploads = 0 /\ last = NoRun /\ prev = NoPrev
ClassifyIdle == cFmt = "" /\ cInput = <<>> /\ cResult = Pending
ScoreIdle == sCounts = <<0, 0>> /\ sScore = Pending

-----------------------------------------------------------------------------
(* Events, uploads and the behaviours of the handler *)

K(ns, name, ext) == <<ns, name, ext>>

UploadKeys ==
    {K("raw/", "a", ".xml"), K("raw/", "a", ".json"), <<"raw/", "raw/", "a", ".csv">>,
     K("validated/", "b", ".xml"), K("error/", "b", ".txt")}

XmlBad == With(XmlGood, "Name", PyNone)
JsonBad == JDict(With(JsonGood, "Amount", PyInt(0 - 5)))
CsvBad == With(CsvGood, "Rating", PyStr(S_abc))

\* the record sequences of the sample files: one valid record, one invalid
\* record, one of each
SampleSeqs(good, bad) == {<<good>>, <<bad>>, <<good, bad>>}

\* the contents another party may store under a key: a well-formed file of the
\* key's extension, or text that is not of that format
ContentsFor(key) ==
    CASE endswith(key, ".xml") ->
            {XmlDoc(s) : s \in SampleSeqs(XmlGood, XmlBad)} \cup {PlainText}
      [] endswith(key, ".json") ->
            {JsonArray(s) : s \in SampleSeqs(JDict(JsonGood), JsonBad)}
                \cup {PlainText, JsonNumber, JsonObject(<<JStr(Chars_CustomerID)>>)}
      [] endswith(key, ".csv") ->
            {CsvText(s) : s \in SampleSeqs(CsvGood, CsvBad)} \cup {PlainText}
      [] OTHER -> {PlainText}

Notification(hasBucketName, hasKey, key) ==
    [hasBucketName |-> hasBucketName, hasKey |-> hasKey, key |-> key]

\* a key no object is stored under
AbsentKey == K("raw/", "b", ".json")

\* the notifications the handler may be invoked with: without Records, with an
\* empty Records list, with a first record that lacks the bucket name or the
\* object key, or naming a stored object or an absent one
Events(store) ==
    {[hasRecords |-> FALSE, Records |-> <<>>], [hasRecords |-> TRUE, Records |-> <<>>],
     [hasRecords |-> TRUE, Records |-> <<Notification(FALSE, TRUE, K("raw/", "a", ".json"))>>],
     [hasRecords |-> TRUE, Records |-> <<Notification(TRUE, FALSE, NoKey)>>]}
    \cup {[hasRecords |-> TRUE, Records |-> <<Notification(TRUE, TRUE, k)>>] :
             k \in (DOMAIN store) \cup {AbsentKey}}

NamesKey(ev) ==
    /\ ev.hasRecords /\ ev.Records # <<>>
    /\ ev.Records[1].hasBucketName /\ ev.Records[1].hasKey

Env(unreadable, cwFail, glueFail) ==
    [unreadable |-> unreadable, cwFail |-> cwFail, glueFail |-> glueFail]

\* what the collaborators do during one invocation: all work, or the metrics
\* service fails, or the job service fails, or the store cannot serve one of the
\* objects the invocation reads (the event's object, the objects under
\* validated/ and error/)
Envs(store, ev) ==
    {Env(NoKey, FALSE, FALSE), Env(NoKey, TRUE, FALSE)}
    \cup (IF NamesKey(ev)
          THEN {Env(NoKey, FALSE, TRUE)}
               \cup {Env(k, FALSE, FALSE) :
                       k \in {x \in DOMAIN store : \/ x = ev.Records[1].key
                                                   \/ startswith(x, "validated/")
                                                   \/ startswith(x, "error/")}}
          ELSE {})

Init ==
    /\ s3 = EmptyStore /\ uploads = 0 /\ last = NoRun /\ prev = NoPrev
    /\ ClassifyIdle /\ ScoreIdle

\* another party puts an object into the bucket
ExternalPut ==
    /\ uploads < MaxUploads
    /\ \E key \in UploadKeys : \E body \in ContentsFor(key) :
          s3' = put_object(s3, key, body)
    /\ uploads' = uploads + 1
    /\ last' = NoRun
    /\ prev' = NoPrev
    /\ UNCHANGED <<cFmt, cInput, cResult, sCounts, sScore>>

\* one invocation of lambda_handler
lambda_handler ==
    /\ \E ev \in Events(s3) : \E env \in Envs(s3, ev) :
          \E r \in {handler(s3, ev, env)} :
             /\ s3' = r.store
             /\ last' = r.out
    /\ prev' = IF last.ran /\ last.scored
               THEN [ran |-> TRUE, event |-> last.event, tv |-> last.tv,
                     ti |-> last.ti, dq |-> last.dq]
               ELSE NoPrev
    /\ UNCHANGED <<uploads, cFmt, cInput, cResult, sCounts, sScore>>

Next == ExternalPut \/ lambda_handler

Spec == Init /\ [][Next]_vars

-----------------------------------------------------------------------------
(* Classification of every bounded record sequence *)

InitClassify ==
    /\ HandlerIdle /\ ScoreIdle
    /\ cFmt \in Formats
    /\ cInput \in SeqsUpTo(RecordsOf(cFmt), MaxSeqLen)
    /\ cResult = Pending

Classify ==
    /\ cResult = Pending
    /\ cFmt \in Formats
    /\ cResult' = classify(cFmt, cInput)
    /\ UNCHANGED <<s3, uploads, last, prev, cFmt, cInput, sCounts, sScore>>

SpecClassify == InitClassify /\ [][Classify]_vars

-----------------------------------------------------------------------------
(* The score of every bounded pair of counters *)

InitScore ==
    /\ HandlerIdle /\ ClassifyIdle
    /\ sCounts \in (0..MaxCount) \X (0..MaxCount)
    /\ sScore = Pending

Score ==
    /\ sScore = Pending
    /\ sScore' = dq_score(sCounts[1], sCounts[2])
    /\ UNCHANGED <<s3, uploads, last, prev, cFmt, cInput, cResult, sCounts>>

SpecScore == InitScore /\ [][Score]_vars

-----------------------------------------------------------------------------
(* Claims about classification and the score *)

RECURSIVE Pick(_, _, _)
\* the subsequence of s at the positions in I that are >= i, in order
Pick(s, I, i) ==
    IF i > Len(s) THEN <<>>
    ELSE (IF i \in I THEN <<s[i]>> ELSE <<>>) \o Pick(s, I, i + 1)

RuleOf(fmt, rec) ==
    CASE fmt = "xml" -> xml_rule(rec)
      [] fmt = "json" -> json_rule(rec)
      [] fmt = "csv" -> csv_rule(rec)

\* C1: classification of any decoded record sequence returns (does not raise), and
\* its two outputs partition the input positions: some set I of positions gives
\* valid = input restricted to I and invalid = input restricted to the rest, both
\* in input order, so |valid| + |invalid| = |input|.
C1_ClassifierPartitions ==
    cResult # Pending =>
        /\ cResult.exc = ""
        /\ Len(cResult.valid) + Len(cResult.invalid) = Len(cInput)
        /\ \E I \in SUBSET (1..Len(cInput)) :
              /\ cResult.valid = Pick(cInput, I, 1)
              /\ cResult.invalid = Pick(cInput, (1..Len(cInput)) \ I, 1)

\* a sequence with a record whose rule raises, one valid and one invalid output
C1_Witness ==
    /\ cResult # Pending
    /\ cResult.exc = ""
    /\ Len(cResult.valid) >= 1
    /\ Len(cResult.invalid) >= 1
    /\ \E i \in 1..Len(cInput) : RuleOf(cFmt, cInput[i]) \notin {"valid", "invalid"}

\* C10: the score is 0 for counters (0, 0), otherwise the fraction
\* total_valid / (total_valid + total_invalid) * 100 (75 for (3, 1)); it lies in
\* [0, 100] and no division by zero is evaluated.
C10_ScoreValue ==
    sScore # Pending =>
        LET tv == sCounts[1]
            ti == sCounts[2]
        IN /\ sScore.exc = ""
           /\ sScore.den > 0
           /\ (tv = 0 /\ ti = 0) => (sScore.num = 0)
           /\ sScore.num * (tv + ti) = 100 * tv * sScore.den
           /\ 0 <= sScore.num /\ sScore.num <= 100 * sScore.den
           /\ (tv = 3 /\ ti = 1) => (sScore.num = 75 /\ sScore.den = 1)

\* the counters (3, 1) scored
C10_Witness == sScore # Pending /\ sCounts = <<3, 1>> /\ sScore.num = 75

-----------------------------------------------------------------------------
(* Claims about lambda_handler.  They read last, the record of the latest  *)
(* invocation, and s3, the bucket as that invocation left it.              *)

EventKey == last.event.Records[1].key
RanOnKey == last.ran /\ NamesKey(last.event)
RanOnRawKey == RanOnKey /\ startswith(EventKey, "raw/")
AllWork == Env(NoKey, FALSE, FALSE)

\* the valid records held under validated/ and the invalid records held under error/
StoredValid(store) ==
    rescan(store, list_objects_v2(store, "validated/"), "valid", AllWork, 0).total
StoredInvalid(store) ==
    rescan(store, list_objects_v2(store, "error/"), "invalid", AllWork, 0).total

\* the classification of the event's object, which an invocation on a key under
\* raw/ leaves in place
CurrentResult == process_by_extension(EventKey, s3[EventKey])

\* C2: after an invocation on a key under raw/ that reaches the scoring step,
\* total_valid is the number of valid records held under validated/,
\* total_invalid the number of invalid records held under error/, and the score
\* is the percentage these two give: every record is counted once.
C2_EveryRecordCountedOnce ==
    (RanOnRawKey /\ last.scored) =>
        /\ last.tv = StoredValid(s3)
        /\ last.ti = StoredInvalid(s3)
        /\ last.dq = dq_score(StoredValid(s3), StoredInvalid(s3))

\* C3: in an invocation that reaches the scoring step, start_job_run is called
\* once if total_valid > 0 and not at all if total_valid = 0, where total_valid
\* is the current file's valid count plus the valid records rescanned under
\* validated/.
C3_JobStartedIffTotalValidPositive ==
    (last.ran /\ last.scored) =>
        /\ last.jobs = (IF last.tv > 0 THEN 1 ELSE 0)
        /\ RanOnRawKey => last.tv = Len(CurrentResult.valid) + StoredValid(s3)

\* an invocation with a score below 100 that called start_job_run
C3_Witness ==
    /\ last.ran /\ last.scored
    /\ last.tv > 0 /\ last.ti > last.tv
    /\ last.jobs = 1

\* C4: when the event names no (bucket, key) pair or the object cannot be read,
\* the handler returns a failure status after one validation-failure metric,
\* writes nothing, lists nothing and starts no job.
C4_NoPairOrUnreadableFailsCleanly ==
    (last.ran /\ (~NamesKey(last.event) \/ last.readFailed)) =>
        /\ last.exc = ""
        /\ last.status \in {"No Records", "Failed to read file"}
        /\ last.metrics = 1
        /\ last.puts = <<>> /\ last.lists = 0 /\ last.jobs = 0

\* C5: every invocation on an event that names a key returns a status object;
\* none ends in an exception, whatever the file holds and whichever collaborator
\* fails.
C5_AlwaysReturnsStatus ==
    RanOnKey => (last.exc = "" /\ last.status # "")

\* content that does not parse in the format the key's extension declares
Malformed(key, content) ==
    \/ endswith(key, ".xml") /\ content.fmt # "xml"
    \/ endswith(key, ".json") /\ (content.fmt # "json" \/ content.top # "array")

\* C6: when the triggering file (under raw/) does not parse in its declared
\* format, nothing is written, nothing is counted, no job is started, the
\* validation-failure metric is emitted and the invocation ends with a status.
C6_MalformedFileFailsWhole ==
    (RanOnRawKey /\ ~last.readFailed /\ Malformed(EventKey, s3[EventKey])) =>
        /\ last.puts = <<>>
        /\ ~last.scored
        /\ last.jobs = 0
        /\ last.metrics >= 1
        /\ last.exc = ""

\* C7: two invocations in succession for the same event, with no other change to
\* the bucket, compute the same total_valid, total_invalid and score.
C7_RerunSameTotals ==
    (last.ran /\ last.scored /\ prev.ran /\ prev.event = last.event) =>
        /\ last.tv = prev.tv
        /\ last.ti = prev.ti
        /\ last.dq = prev.dq

\* the key with its leading raw/ namespace replaced, the rest unchanged
InNamespace(key, ns) == <<ns>> \o Tail(key)

\* C8: an invocation on a key under raw/ writes at most two objects, the valid
\* cohort under the key with raw/ replaced by validated/ and the invalid cohort
\* under the key with raw/ replaced by error/, the rest of the path unchanged;
\* an empty cohort is not written.
C8_WritesOnlyDerivedKeys ==
    RanOnRawKey =>
        /\ Len(last.puts) <= 2
        /\ \A i \in 1..Len(last.puts) :
              last.puts[i] \in {InNamespace(EventKey, "validated/"),
                                InNamespace(EventKey, "error/")}
        /\ \A i, j \in 1..Len(last.puts) : i # j => last.puts[i] # last.puts[j]
        /\ last.scored =>
              /\ (CurrentResult.valid = <<>>) =>
                    InNamespace(EventKey, "validated/") \notin {last.puts[i] : i \in 1..Len(last.puts)}
              /\ (CurrentResult.invalid = <<>>) =>
                    InNamespace(EventKey, "error/") \notin {last.puts[i] : i \in 1..Len(last.puts)}

\* C9: in an invocation that reaches the scoring step, the scoring step emits the
\* validation-failure metric exactly when total_invalid > 0; with total_valid > 0
\* as well the job is started in the same invocation, also when publishing the
\* metric fails.
C9_MetricIffTotalInvalidPositive ==
    (last.ran /\ last.scored) =>
        /\ last.scoringMetric <=> (last.ti > 0)
        /\ last.metrics = (IF last.ti > 0 THEN 1 ELSE 0)
        /\ (last.tv > 0 /\ last.ti > 0) => (last.scoringMetric /\ last.jobs = 1)
        /\ (last.cwDown /\ last.tv > 0) => last.jobs = 1

\* both fire in one invocation although the metrics service fails
C9_Witness ==
    /\ last.ran /\ last.scored
    /\ last.tv > 0 /\ last.ti > 0
    /\ last.cwDown /\ last.scoringMetric /\ last.jobs = 1

====
